---- MODULE Spec2Model ----
(***************************************************************************)
(* A model of the real-time fan-out services of cenab/ambercore.           *)
(*                                                                         *)
(* SSEService (libs/messaging/sse/sse.service.ts): the client registry     *)
(* (clients), the subscription records (subscriptions), the active topic   *)
(* set (activeTopics), the heartbeat timer and the operations addClient,   *)
(* removeClient, subscribe, unsubscribe, broadcast, sendToClient and the   *)
(* heartbeat sweep.  Every handler of the service is synchronous           *)
(* (removeClient is declared async but holds no await, so its body runs to *)
(* completion inside the call), hence one action per handler.              *)
(*                                                                         *)
(* The transport (express Response) is the environment: whether a call of  *)
(* response.writeHead, response.write or response.end throws is chosen     *)
(* nondeterministically per call.  An operation is a pure operator from    *)
(* the service state and its inputs to the new service state, the          *)
(* transport calls it made (fx) and its outcome; the action of the         *)
(* operation installs the new service state.  The timestamps of a client  *)
(* and its lastEventId are written and never read by the service; they     *)
(* are left out.  Client ids (`client_${Date.now()}_${random}`) are fresh. *)
(*                                                                         *)
(* The other services have a state machine of their own further down: the  *)
(* WebSocketService heartbeat, the PusherGateway, the WebhookService       *)
(* (incoming and outgoing side) and the Redis keys of MessagingService and  *)
(* RedisStorage.  Each specification runs one of them and leaves the       *)
(* others as constructed.                                                  *)
(***************************************************************************)
EXTENDS Integers, Sequences, FiniteSets, TLC

VARIABLES
    config,             \* SSEService.config: [enabled, maxClients]
    clients,            \* SSEService.clients: clientId -> [topics]
    subscriptions,      \* SSEService.subscriptions: key -> SSESubscription
    activeTopics,       \* SSEService.activeTopics
    heartbeatInterval,  \* TRUE while the setInterval timer is armed
    nextClientId        \* source of fresh client ids

VARIABLES
    wsSockets,          \* WebSocketServer.clients: socket id -> state of the socket
    wsClients,          \* WebSocketService.clients (the registry), as its key set
    isAlive,            \* WebSocketClient.isAlive, per socket
    wsHeartbeat,        \* TRUE while WebSocketService.heartbeatInterval is armed
    missed,             \* history: sweeps that visited the socket since its last pong
    heard               \* history: a pong or a message arrived since the last sweep

VARIABLES
    pgSockets,          \* socket.io sockets of PusherGateway: id -> state
    connectedClients,   \* PusherGateway.connectedClients: client id -> channels
    rooms,              \* socket.io rooms: the <<client, channel>> pairs joined
    tasks,              \* the async calls in flight, each at its await
    triggered,          \* history: the completed Pusher trigger calls, in order
    emitted             \* history: the acknowledgements emitted to the clients

VARIABLES
    whConfig,           \* WebhookService.config: [verifySignature, secret, retries]
    handlers,           \* WebhookService.handlers: type -> [verifySignature]
    posted,             \* the last request of the POST route and its answer
    whSubscriptions,    \* WebhookService.subscriptions: id -> the object stored
    sends,              \* the call of WebhookService.send that is in flight or done
    whClock,            \* source of the timestamps of delivery results
    nextSub             \* source of fresh subscription ids

VARIABLES
    now,                \* Date.now(), in milliseconds
    messageStore,       \* the Redis keys message:<id>: id -> stored message
    counter,            \* the Redis string under the key that increment works on
    increments,         \* the calls of RedisStorage.increment: call -> [pc, current]
    channelList,        \* the Redis list under the channel's name
    polling,            \* the poll of the interval callback that awaits lrange
    invoked,            \* calls of the subscriber's callback, per message
    unsubscribed        \* TRUE once unsubscribe(channel) has returned

sseVars == <<config, clients, subscriptions, activeTopics, heartbeatInterval,
             nextClientId>>

wsVars == <<wsSockets, wsClients, isAlive, wsHeartbeat, missed, heard>>

pgVars == <<pgSockets, connectedClients, rooms, tasks, triggered, emitted>>

whVars == <<whConfig, handlers, posted, whSubscriptions, sends, whClock, nextSub>>

rsVars == <<now, messageStore, counter, increments, channelList, polling,
            invoked, unsubscribed>>

vars == <<sseVars, wsVars, pgVars, whVars, rsVars>>

(***************************************************************************)
(* Bounds of the model.                                                    *)
(***************************************************************************)
\* Client ids ever handed out by addClient.
MaxIds == 2

ClientIds == 1 .. MaxIds

\* Topic names are non-empty strings; NoTopic stands for an absent (or
\* empty, equally falsy) event.topic.
Topics == {"t1", "t2"}
NoTopic == ""

\* Default of config.maxEventSize, in bytes (1024 * 1024).
maxEventSize == 1048576

NoFilter == "none"
\* The filter of the test suite: event.data.priority === 'high'.
HighOnly == "high"
Filters == {NoFilter, HighOnly}

\* SSEEvent: data is abstracted to what the service reads of it, its
\* serialized length in bytes, and what the filter reads, its priority.
Events ==
    [id : {"e1"}, topic : Topics \cup {NoTopic},
     data : {[priority |-> "low", bytes |-> 1], [priority |-> "high", bytes |-> 1],
             [priority |-> "low", bytes |-> maxEventSize + 1]}]

\* The event of the heartbeat sweep.
HeartbeatEvent ==
    [id |-> "heartbeat", topic |-> NoTopic,
     data |-> [priority |-> "low", bytes |-> 1]]

(***************************************************************************)
(* Map helpers (ES2015 Map/Set).                                           *)
(***************************************************************************)
MapSet(m, k, v) == [x \in DOMAIN m \cup {k} |-> IF x = k THEN v ELSE m[x]]

MapDelete(m, k) == [x \in DOMAIN m \ {k} |-> m[x]]

EmptyMap == [x \in {} |-> {}]

\* Map.forEach visits the entries in insertion order; ids are handed out in
\* increasing order, so insertion order is id order.
RECURSIVE SortedSeq(_)
SortedSeq(S) ==
    IF S = {} THEN <<>>
    ELSE LET m == CHOOSE x \in S : \A y \in S : x <= y
         IN  <<m>> \o SortedSeq(S \ {m})

\* The key `${clientId}:${topic}` of a subscription record.
SubKey(c, t) == <<c, t>>

\* A bare topic string used as a key of the subscriptions map.
TopicAsKey(t) == <<t>>

(***************************************************************************)
(* Transport effects of one operation: the response.write calls (the       *)
(* message and whether the call returned) and the response.end calls, per  *)
(* client.                                                                 *)
(***************************************************************************)
NoEffects ==
    [writes |-> [c \in ClientIds |-> <<>>], ends |-> [c \in ClientIds |-> <<>>]]

LogWrite(fx, c, msg, ok) ==
    [fx EXCEPT !.writes[c] = Append(@, [msg |-> msg, ok |-> ok])]

LogEnd(fx, c, ok) ==
    [fx EXCEPT !.ends[c] = Append(@, ok)]

\* The service state the pure operators below transform.
Svc == [clients |-> clients, subscriptions |-> subscriptions,
        activeTopics |-> activeTopics]

\* Errors an operation throws to its caller; NoError: it returned.
ErrDisabled == "SSE service is disabled"
ErrMaxClients == "Maximum number of clients reached"
ErrEventSize == "Event data exceeds maximum size limit"
ErrTransport == "transport error"
NoError == ""

(***************************************************************************)
(* removeClient                                                            *)
(***************************************************************************)
\* .some(c => c.id !== clientId && c.topics.has(topic))
hasOtherClients(cl, clientId, topic) ==
    \E c \in DOMAIN cl : c # clientId /\ topic \in cl[c].topics

\* Array.from(subscriptions.values()).filter(sub => sub.clientId === clientId)
clientSubs(subs, clientId) ==
    {k \in DOMAIN subs : subs[k].clientId = clientId}

\* for (const sub of clientSubs) this.subscriptions.delete(sub.topic)
deleteClientSubs(subs, clientId) ==
    LET gone == {TopicAsKey(subs[k].topic) : k \in clientSubs(subs, clientId)}
    IN  [k \in DOMAIN subs \ gone |-> subs[k]]

\* client.topics.forEach(topic => if (!hasOtherClients) activeTopics.delete(topic))
dropInactiveTopics(active, cl, clientId, topics) ==
    active \ {t \in topics : ~hasOtherClients(cl, clientId, t)}

\* A catch clause that only logs.
removeClientCatchLogOnly(cl, clientId) == cl

\* The catch clause of removeClient: the client is deleted all the same.
removeClientCatch(cl, clientId) == MapDelete(cl, clientId)

\* removeClient(clientId); endThrows: response.end() throws.
\* Returns the new service state, the effects and whether the call threw.
removeClient(S, fx, clientId, endThrows) ==
    IF clientId \notin DOMAIN S.clients
    THEN [S |-> S, fx |-> fx, threw |-> FALSE]
    ELSE LET client == S.clients[clientId]
             subs1 == deleteClientSubs(S.subscriptions, clientId)
             active1 == dropInactiveTopics(S.activeTopics, S.clients,
                                           clientId, client.topics)
             cl1 == IF endThrows
                    THEN removeClientCatch(S.clients, clientId)
                    ELSE MapDelete(S.clients, clientId)
         IN  [S |-> [clients |-> cl1, subscriptions |-> subs1,
                     activeTopics |-> active1],
              fx |-> LogEnd(fx, clientId, ~endThrows),
              threw |-> FALSE]

(***************************************************************************)
(* sendEvent                                                               *)
(***************************************************************************)
\* The text written for an event: the id line and the data line (the topic
\* and the timestamp of an event are not put on the wire).
FormatMessage(event) == [id |-> event.id, data |-> event.data]

\* config.maxEventSize && Buffer.byteLength(data) > config.maxEventSize
exceedsMaxEventSize(event) == event.data.bytes > maxEventSize

\* sendEvent with the write repeated.
sendEventTwice(enabled, fx, clientId, event, writeThrows) ==
    IF ~enabled THEN [fx |-> fx, threw |-> FALSE]
    ELSE IF exceedsMaxEventSize(event) THEN [fx |-> fx, threw |-> TRUE]
    ELSE [fx |-> LogWrite(LogWrite(fx, clientId, FormatMessage(event), ~writeThrows),
                          clientId, FormatMessage(event), ~writeThrows),
          threw |-> writeThrows]

\* sendEvent(client, event); writeThrows: response.write() throws.
\* Every error is logged and thrown again.
sendEvent(enabled, fx, clientId, event, writeThrows) ==
    IF ~enabled THEN [fx |-> fx, threw |-> FALSE]
    ELSE IF exceedsMaxEventSize(event) THEN [fx |-> fx, threw |-> TRUE]
    ELSE [fx |-> LogWrite(fx, clientId, FormatMessage(event), ~writeThrows),
          threw |-> writeThrows]

(***************************************************************************)
(* subscribe / unsubscribe                                                 *)
(***************************************************************************)
\* The record subscribe() builds: no filter.
newSubscription(clientId, topic) ==
    [topic |-> topic, clientId |-> clientId, filter |-> NoFilter]

\* topics.forEach of subscribe: the steps for different topics commute.
subscribeTopics(S, clientId, topics) ==
    [clients |-> [S.clients EXCEPT ![clientId].topics = @ \cup topics],
     activeTopics |-> S.activeTopics \cup topics,
     subscriptions |->
        [k \in DOMAIN S.subscriptions \cup {SubKey(clientId, t) : t \in topics} |->
            IF k \in {SubKey(clientId, t) : t \in topics}
            THEN newSubscription(clientId, k[2])
            ELSE S.subscriptions[k]]]

subscribe(S, clientId, topics) ==
    IF clientId \in DOMAIN S.clients THEN subscribeTopics(S, clientId, topics)
    ELSE S

\* unsubscribeActive without the hasOtherClients test.
unsubscribeActiveAll(active, cl, clientId, topics) == active \ topics

\* The topics of one unsubscribe call that leave activeTopics: those no
\* other client holds.
unsubscribeActive(active, cl, clientId, topics) ==
    active \ {t \in topics : ~hasOtherClients(cl, clientId, t)}

\* topics.forEach of unsubscribe.
unsubscribeTopics(S, clientId, topics) ==
    [clients |-> [S.clients EXCEPT ![clientId].topics = @ \ topics],
     subscriptions |->
        [k \in DOMAIN S.subscriptions \ {SubKey(clientId, t) : t \in topics} |->
            S.subscriptions[k]],
     activeTopics |-> unsubscribeActive(S.activeTopics, S.clients, clientId, topics)]

unsubscribe(S, clientId, topics) ==
    IF clientId \in DOMAIN S.clients THEN unsubscribeTopics(S, clientId, topics)
    ELSE S

(***************************************************************************)
(* broadcast / sendToClient / heartbeat                                    *)
(***************************************************************************)
\* subscription.filter(finalEvent)
applyFilter(filter, event) ==
    IF filter = HighOnly THEN event.data.priority = "high" ELSE TRUE

\* isRecipient without the topic test.
isRecipientAny(event, client) == TRUE

\* !event.topic || client.topics.has(event.topic)
isRecipient(event, client) ==
    event.topic = NoTopic \/ event.topic \in client.topics

\* filterRejects with the filter never consulted.
filterRejectsNever(subs, clientId, event) == FALSE

\* subscription?.filter && !subscription.filter(finalEvent)
filterRejects(subs, clientId, event) ==
    /\ event.topic # NoTopic
    /\ SubKey(clientId, event.topic) \in DOMAIN subs
    /\ subs[SubKey(clientId, event.topic)].filter # NoFilter
    /\ ~applyFilter(subs[SubKey(clientId, event.topic)].filter, event)

\* sendOrRemove with a catch clause that only logs.
sendOrKeep(enabled, S, fx, clientId, event, writeThrows, endThrows) ==
    LET r == sendEvent(enabled, fx, clientId, event, writeThrows)
    IN  IF r.threw
        THEN [S |-> S, fx |-> r.fx, sent |-> 0, failed |-> 1]
        ELSE [S |-> S, fx |-> r.fx, sent |-> 1, failed |-> 0]

\* A send whose error is caught by the caller, which then removes the
\* client: the try/catch of broadcast, sendToClient and the heartbeat sweep.
sendOrRemove(enabled, S, fx, clientId, event, writeThrows, endThrows) ==
    LET r == sendEvent(enabled, fx, clientId, event, writeThrows)
    IN  IF r.threw
        THEN LET rm == removeClient(S, r.fx, clientId, endThrows)
             IN  [S |-> rm.S, fx |-> rm.fx, sent |-> 0, failed |-> 1]
        ELSE [S |-> S, fx |-> r.fx, sent |-> 1, failed |-> 0]

\* The body of broadcast's clients.forEach for one client.
broadcastToClient(enabled, S, fx, clientId, event, writeThrows, endThrows) ==
    IF ~isRecipient(event, S.clients[clientId])
    THEN [S |-> S, fx |-> fx, sent |-> 0, failed |-> 0]
    ELSE IF filterRejects(S.subscriptions, clientId, event)
    THEN [S |-> S, fx |-> fx, sent |-> 0, failed |-> 0]
    ELSE sendOrRemove(enabled, S, fx, clientId, event, writeThrows, endThrows)

\* broadcastLoop without the per-client try/catch: the first failure ends
\* the loop.
RECURSIVE broadcastLoopAbort(_, _, _, _, _, _, _, _)
broadcastLoopAbort(enabled, S, fx, order, event, W, E, sentCount) ==
    IF order = <<>>
    THEN [S |-> S, fx |-> fx, sentCount |-> sentCount, threw |-> NoError,
          returned |-> <<>>]
    ELSE LET c == Head(order)
         IN  IF c \notin DOMAIN S.clients
             THEN broadcastLoopAbort(enabled, S, fx, Tail(order), event, W, E,
                                     sentCount)
             ELSE LET r == broadcastToClient(enabled, S, fx, c, event,
                                             c \in W, c \in E)
                  IN  IF r.failed = 1
                      THEN [S |-> r.S, fx |-> r.fx, sentCount |-> sentCount,
                            threw |-> NoError, returned |-> <<>>]
                      ELSE broadcastLoopAbort(enabled, r.S, r.fx, Tail(order),
                                              event, W, E, sentCount + r.sent)

\* clients.forEach of broadcast over the ids `order`; an entry deleted before
\* it is reached is not visited.  W, E: the clients whose response.write,
\* response.end throws.
RECURSIVE broadcastLoop(_, _, _, _, _, _, _, _)
broadcastLoop(enabled, S, fx, order, event, W, E, sentCount) ==
    IF order = <<>>
    THEN [S |-> S, fx |-> fx, sentCount |-> sentCount, threw |-> NoError,
          returned |-> <<>>]
    ELSE LET c == Head(order)
         IN  IF c \notin DOMAIN S.clients
             THEN broadcastLoop(enabled, S, fx, Tail(order), event, W, E, sentCount)
             ELSE LET r == broadcastToClient(enabled, S, fx, c, event,
                                             c \in W, c \in E)
                  IN  broadcastLoop(enabled, r.S, r.fx, Tail(order), event, W, E,
                                    sentCount + r.sent)

\* broadcast(event).  Every error of the loop body is caught inside it, so
\* the call throws nothing (threw is NoError); it has no return statement
\* (returned is <<>>, undefined); sentCount is only logged.
broadcast(enabled, S, event, W, E) ==
    IF ~enabled
    THEN [S |-> S, fx |-> NoEffects, sentCount |-> 0, threw |-> NoError,
          returned |-> <<>>]
    ELSE broadcastLoop(enabled, S, NoEffects, SortedSeq(DOMAIN S.clients),
                       event, W, E, 0)

\* sendToClient without the lookup in the registry.
sendToClientNoLookup(enabled, S, clientId, event, writeThrows, endThrows) ==
    IF ~enabled
    THEN [S |-> S, fx |-> NoEffects, sent |-> 0, failed |-> 0]
    ELSE sendOrRemove(enabled, S, NoEffects, clientId, event, writeThrows, endThrows)

\* sendToClient(clientId, event)
sendToClient(enabled, S, clientId, event, writeThrows, endThrows) ==
    IF ~enabled \/ clientId \notin DOMAIN S.clients
    THEN [S |-> S, fx |-> NoEffects, sent |-> 0, failed |-> 0]
    ELSE sendOrRemove(enabled, S, NoEffects, clientId, event, writeThrows, endThrows)

\* heartbeatLoop without the per-client try/catch: the first failure ends
\* the sweep.
RECURSIVE heartbeatLoopAbort(_, _, _, _, _, _)
heartbeatLoopAbort(enabled, S, fx, order, W, E) ==
    IF order = <<>> THEN [S |-> S, fx |-> fx]
    ELSE LET c == Head(order)
         IN  IF c \notin DOMAIN S.clients
             THEN heartbeatLoopAbort(enabled, S, fx, Tail(order), W, E)
             ELSE LET r == sendEvent(enabled, fx, c, HeartbeatEvent, c \in W)
                  IN  IF r.threw THEN [S |-> S, fx |-> r.fx]
                      ELSE heartbeatLoopAbort(enabled, S, r.fx, Tail(order), W, E)

\* The timer callback of startHeartbeat: clients.forEach, a heartbeat event
\* to each, removeClient on a throw.
RECURSIVE heartbeatLoop(_, _, _, _, _, _)
heartbeatLoop(enabled, S, fx, order, W, E) ==
    IF order = <<>> THEN [S |-> S, fx |-> fx]
    ELSE LET c == Head(order)
         IN  IF c \notin DOMAIN S.clients
             THEN heartbeatLoop(enabled, S, fx, Tail(order), W, E)
             ELSE LET r == sendOrRemove(enabled, S, fx, c, HeartbeatEvent,
                                        c \in W, c \in E)
                  IN  heartbeatLoop(enabled, r.S, r.fx, Tail(order), W, E)

heartbeatSweep(enabled, S, W, E) ==
    heartbeatLoop(enabled, S, NoEffects, SortedSeq(DOMAIN S.clients), W, E)

(***************************************************************************)
(* onModuleDestroy / cleanup                                               *)
(***************************************************************************)
\* for (const client of this.clients.values()) await this.removeClient(client.id)
\* The awaits are of calls without I/O, so the loop runs in one turn of the
\* event loop.
RECURSIVE cleanupLoop(_, _, _, _)
cleanupLoop(S, fx, order, E) ==
    IF order = <<>> THEN [S |-> S, fx |-> fx]
    ELSE LET c == Head(order)
         IN  IF c \notin DOMAIN S.clients
             THEN cleanupLoop(S, fx, Tail(order), E)
             ELSE LET r == removeClient(S, fx, c, c \in E)
                  IN  cleanupLoop(r.S, r.fx, Tail(order), E)

\* A cleanup that ends after the loop.
clearNothing(S) == S

\* this.clients.clear(); this.subscriptions.clear(); this.activeTopics.clear()
clearAll(S) ==
    [clients |-> EmptyMap, subscriptions |-> EmptyMap, activeTopics |-> {}]

\* cleanup(): clearInterval, the loop, the three clear() calls.
cleanup(S, E) ==
    LET r == cleanupLoop(S, NoEffects, SortedSeq(DOMAIN S.clients), E)
    IN  [S |-> clearAll(r.S), fx |-> r.fx, heartbeatInterval |-> FALSE]

\* onModuleDestroy(): cleanup inside a try/catch that logs.
onModuleDestroy(S, E) ==
    LET r == cleanup(S, E)
    IN  [S |-> r.S, fx |-> r.fx, heartbeatInterval |-> r.heartbeatInterval,
         threw |-> FALSE]

(***************************************************************************)
(* addClient                                                               *)
(***************************************************************************)
\* The line `retry: ${config.retryInterval}` written after registration.
RetryMessage == [id |-> "", data |-> [priority |-> "low", bytes |-> 1]]

\* atCapacity with > for >=.
atCapacityOffByOne(cl, maxClients) == Cardinality(DOMAIN cl) > maxClients

\* this.clients.size >= this.config.maxClients
atCapacity(cl, maxClients) == Cardinality(DOMAIN cl) >= maxClients

\* addClient(response, topics) with the fresh id clientId; fail says which
\* transport call throws: "writeHead", "write" (the retry line) or "none".
addClient(cfg, S, clientId, topics, fail) ==
    IF ~cfg.enabled
    THEN [S |-> S, fx |-> NoEffects, threw |-> ErrDisabled, returned |-> <<>>]
    ELSE IF atCapacity(S.clients, cfg.maxClients)
    THEN [S |-> S, fx |-> NoEffects, threw |-> ErrMaxClients, returned |-> <<>>]
    ELSE IF fail = "writeHead"
    THEN [S |-> S, fx |-> NoEffects, threw |-> ErrTransport, returned |-> <<>>]
    ELSE LET S1 == [clients |-> MapSet(S.clients, clientId, [topics |-> topics]),
                    subscriptions |-> S.subscriptions,
                    activeTopics |-> S.activeTopics \cup topics]
             fx1 == LogWrite(NoEffects, clientId, RetryMessage, fail # "write")
         IN  IF fail = "write"
             THEN [S |-> S1, fx |-> fx1, threw |-> ErrTransport, returned |-> <<>>]
             ELSE [S |-> S1, fx |-> fx1, threw |-> NoError, returned |-> <<clientId>>]

(***************************************************************************)
(* The state machine.                                                      *)
(***************************************************************************)
Install(S) ==
    /\ clients' = S.clients
    /\ subscriptions' = S.subscriptions
    /\ activeTopics' = S.activeTopics

\* Which response.end calls of one operation throw: none or all of them.
EndChoices == {{}, DOMAIN clients}

\* new SSEService(config): the configuration is the constructor's input.
InitSSE ==
    /\ config \in [enabled : BOOLEAN, maxClients : 1 .. MaxIds]
    /\ clients = EmptyMap
    /\ subscriptions = EmptyMap
    /\ activeTopics = {}
    /\ heartbeatInterval = FALSE
    /\ nextClientId = 1

\* onModuleInit: startHeartbeat arms the timer unless the service is disabled.
OnModuleInit ==
    /\ config.enabled
    /\ heartbeatInterval' = TRUE
    /\ UNCHANGED <<config, clients, subscriptions, activeTopics, nextClientId>>
    /\ UNCHANGED <<wsVars, pgVars, whVars, rsVars>>

OnModuleDestroy(E) ==
    /\ Install(onModuleDestroy(Svc, E).S)
    /\ heartbeatInterval' = onModuleDestroy(Svc, E).heartbeatInterval
    /\ UNCHANGED <<config, nextClientId>>
    /\ UNCHANGED <<wsVars, pgVars, whVars, rsVars>>

AddClient(topics, fail) ==
    /\ nextClientId <= MaxIds
    /\ LET r == addClient(config, Svc, nextClientId, topics, fail)
       IN  /\ Install(r.S)
           /\ nextClientId' = IF nextClientId \in DOMAIN r.S.clients
                              THEN nextClientId + 1 ELSE nextClientId
    /\ UNCHANGED <<config, heartbeatInterval>>
    /\ UNCHANGED <<wsVars, pgVars, whVars, rsVars>>

RemoveClient(clientId, endThrows) ==
    /\ Install(removeClient(Svc, NoEffects, clientId, endThrows).S)
    /\ UNCHANGED <<config, heartbeatInterval, nextClientId>>
    /\ UNCHANGED <<wsVars, pgVars, whVars, rsVars>>

Subscribe(clientId, topics) ==
    /\ Install(subscribe(Svc, clientId, topics))
    /\ UNCHANGED <<config, heartbeatInterval, nextClientId>>
    /\ UNCHANGED <<wsVars, pgVars, whVars, rsVars>>

Unsubscribe(clientId, topics) ==
    /\ Install(unsubscribe(Svc, clientId, topics))
    /\ UNCHANGED <<config, heartbeatInterval, nextClientId>>
    /\ UNCHANGED <<wsVars, pgVars, whVars, rsVars>>

\* The caller sets the filter on a record it got from getSubscriptions()
\* (the records are handed out by reference).
SetFilter(key, filter) ==
    /\ key \in DOMAIN subscriptions
    /\ subscriptions' = [subscriptions EXCEPT ![key].filter = filter]
    /\ UNCHANGED <<config, clients, activeTopics, heartbeatInterval, nextClientId>>
    /\ UNCHANGED <<wsVars, pgVars, whVars, rsVars>>

Broadcast(event, W, E) ==
    /\ Install(broadcast(config.enabled, Svc, event, W, E).S)
    /\ UNCHANGED <<config, heartbeatInterval, nextClientId>>
    /\ UNCHANGED <<wsVars, pgVars, whVars, rsVars>>

SendToClient(clientId, event, writeThrows, endThrows) ==
    /\ Install(sendToClient(config.enabled, Svc, clientId, event, writeThrows,
                            endThrows).S)
    /\ UNCHANGED <<config, heartbeatInterval, nextClientId>>
    /\ UNCHANGED <<wsVars, pgVars, whVars, rsVars>>

Heartbeat(W, E) ==
    /\ heartbeatInterval
    /\ Install(heartbeatSweep(config.enabled, Svc, W, E).S)
    /\ UNCHANGED <<config, heartbeatInterval, nextClientId>>
    /\ UNCHANGED <<wsVars, pgVars, whVars, rsVars>>

\* Whether response.end throws inside the removeClient of a failed send
\* changes no field (the client is deleted either way), so the steps of
\* broadcast and sendToClient take it not to throw; the properties range over
\* both outcomes.
NextSSE ==
    \/ OnModuleInit
    \/ \E E \in EndChoices : OnModuleDestroy(E)
    \/ \E topics \in SUBSET Topics, fail \in {"none", "writeHead", "write"} :
          AddClient(topics, fail)
    \/ \E c \in ClientIds, endThrows \in BOOLEAN : RemoveClient(c, endThrows)
    \/ \E c \in ClientIds, topics \in SUBSET Topics : Subscribe(c, topics)
    \/ \E c \in ClientIds, topics \in SUBSET Topics : Unsubscribe(c, topics)
    \/ \E c \in ClientIds, t \in Topics, f \in Filters : SetFilter(SubKey(c, t), f)
    \/ \E event \in Events, W \in SUBSET DOMAIN clients : Broadcast(event, W, {})
    \/ \E c \in ClientIds, event \in Events, w \in BOOLEAN :
          SendToClient(c, event, w, FALSE)
    \/ \E W \in SUBSET DOMAIN clients, E \in EndChoices : Heartbeat(W, E)

(***************************************************************************)
(* WebSocketService (libs/messaging/websocket): the server heartbeat.      *)
(* The handlers of the service ('connection', 'pong', 'message', 'close'   *)
(* and the interval callback) are synchronous, one action each.  A socket  *)
(* is "none" before it connects, "open" while connected, "terminated"      *)
(* after ws.terminate() until its 'close' event, and "closed" after it;    *)
(* WebSocketServer.clients holds the open and the terminated sockets.      *)
(***************************************************************************)
\* Sockets that ever connect.
MaxSockets == 2

SocketIds == 1 .. MaxSockets

\* The history counter missed stops counting here.
MaxMissed == 2

\* this.server.clients
serverClients == {ws \in SocketIds : wsSockets[ws] \in {"open", "terminated"}}

\* A sweep that evicts nobody.
sweepEvictsNever(alive) == FALSE

\* if (!ws.isAlive)
sweepEvicts(alive) == ~alive

InitWS ==
    /\ wsSockets = [ws \in SocketIds |-> "none"]
    /\ wsClients = {}
    /\ isAlive = [ws \in SocketIds |-> FALSE]
    /\ wsHeartbeat = FALSE
    /\ missed = [ws \in SocketIds |-> 0]
    /\ heard = [ws \in SocketIds |-> FALSE]

\* onModuleInit: the server is created and the interval armed.
WsOnModuleInit ==
    /\ ~wsHeartbeat
    /\ \A ws \in SocketIds : wsSockets[ws] = "none"
    /\ wsHeartbeat' = TRUE
    /\ UNCHANGED <<wsSockets, wsClients, isAlive, missed, heard>>
    /\ UNCHANGED <<sseVars, pgVars, whVars, rsVars>>

\* onModuleDestroy: stopHeartbeat clears the interval.
WsOnModuleDestroy ==
    /\ wsHeartbeat
    /\ wsHeartbeat' = FALSE
    /\ UNCHANGED <<wsSockets, wsClients, isAlive, missed, heard>>
    /\ UNCHANGED <<sseVars, pgVars, whVars, rsVars>>

\* server.on('connection')
WsConnection(ws) ==
    /\ wsHeartbeat
    /\ wsSockets[ws] = "none"
    /\ wsSockets' = [wsSockets EXCEPT ![ws] = "open"]
    /\ isAlive' = [isAlive EXCEPT ![ws] = TRUE]
    /\ wsClients' = wsClients \cup {ws}
    /\ UNCHANGED <<wsHeartbeat, missed, heard>>
    /\ UNCHANGED <<sseVars, pgVars, whVars, rsVars>>

\* ws.on('pong')
WsPong(ws) ==
    /\ wsSockets[ws] = "open"
    /\ isAlive' = [isAlive EXCEPT ![ws] = TRUE]
    /\ missed' = [missed EXCEPT ![ws] = 0]
    /\ heard' = [heard EXCEPT ![ws] = TRUE]
    /\ UNCHANGED <<wsSockets, wsClients, wsHeartbeat>>
    /\ UNCHANGED <<sseVars, pgVars, whVars, rsVars>>

\* ws.on('message'): handleMessage answers or warns; it touches no field.
WsMessage(ws) ==
    /\ wsSockets[ws] = "open"
    /\ heard' = [heard EXCEPT ![ws] = TRUE]
    /\ UNCHANGED <<wsSockets, wsClients, isAlive, wsHeartbeat, missed>>
    /\ UNCHANGED <<sseVars, pgVars, whVars, rsVars>>

\* ws.on('close'): the peer closed, or the termination completed.
WsClose(ws) ==
    /\ ws \in serverClients
    /\ wsClients' = wsClients \ {ws}
    /\ wsSockets' = [wsSockets EXCEPT ![ws] = "closed"]
    /\ UNCHANGED <<isAlive, wsHeartbeat, missed, heard>>
    /\ UNCHANGED <<sseVars, pgVars, whVars, rsVars>>

\* The interval callback of startHeartbeat: server.clients.forEach.
WsHeartbeat ==
    /\ wsHeartbeat
    /\ LET evicted == {ws \in serverClients : sweepEvicts(isAlive[ws])}
           probed == serverClients \ evicted
       IN  /\ wsClients' = wsClients \ evicted
           /\ wsSockets' = [ws \in SocketIds |->
                               IF ws \in evicted THEN "terminated" ELSE wsSockets[ws]]
           /\ isAlive' = [ws \in SocketIds |->
                             IF ws \in probed THEN FALSE ELSE isAlive[ws]]
    /\ missed' = [ws \in SocketIds |->
                     IF ws \in serverClients /\ missed[ws] < MaxMissed
                     THEN missed[ws] + 1 ELSE missed[ws]]
    /\ heard' = [ws \in SocketIds |->
                    IF ws \in serverClients THEN FALSE ELSE heard[ws]]
    /\ UNCHANGED wsHeartbeat
    /\ UNCHANGED <<sseVars, pgVars, whVars, rsVars>>

NextWS ==
    \/ WsOnModuleInit
    \/ WsOnModuleDestroy
    \/ \E ws \in SocketIds : WsConnection(ws)
    \/ \E ws \in SocketIds : WsPong(ws)
    \/ \E ws \in SocketIds : WsMessage(ws)
    \/ \E ws \in SocketIds : WsClose(ws)
    \/ WsHeartbeat

(***************************************************************************)
(* PusherGateway (core/messaging/gateways) with MessagingService and       *)
(* PusherService.  The handlers are async: a handler runs up to an await   *)
(* of real I/O (the Redis REST call of RedisService.set, the HTTP call of  *)
(* Pusher.trigger), and any other handler may run before it resumes, so    *)
(* there is one action per segment between such awaits.  An await of a     *)
(* call that does no I/O (authenticateChannel, whose authorizeChannel only *)
(* computes a signature; handleUnsubscribe without userId) resumes in the  *)
(* same turn of the event loop and does not end a segment.                 *)
(* RedisService.set and PusherService.sendMessage catch their errors, so   *)
(* an await of them never throws.                                          *)
(***************************************************************************)
\* Sockets that ever connect to the gateway.
MaxPgClients == 2

PgClients == 1 .. MaxPgClients

\* Async calls in flight at a time.
MaxTasks == 2

\* Pusher trigger calls recorded in the history.
MaxTriggered == 2

\* A channel name: its prefix and the rest.
Channels == [prefix : {"presence-", "private-", ""}, name : {"room"}]

\* channel.startsWith(prefix)
startsWith(channel, prefix) == channel.prefix = prefix

\* The userId a client puts into its requests.
UserOf(c) == c

\* authorizeChannel(socketId, channel, presenceData?): what the auth response
\* says about the subscription.
authResponse(channel, withUser) ==
    IF startsWith(channel, "presence-") /\ withUser THEN "presence" ELSE "channel"

NoAuth == "none"

\* The payload of client.emit(event, {channel, auth}).
Emit(c, event, channel, auth) ==
    [client |-> c, event |-> event, channel |-> channel, auth |-> auth]

\* client.emit: the history keeps the acknowledgements of presence
\* subscriptions, the emitted events the properties read; the other events
\* go to the client and are read by nobody.
emit(em, c, event, channel, auth) ==
    IF event = "subscription_succeeded" /\ auth = "presence"
    THEN em \cup {Emit(c, event, channel, auth)}
    ELSE em

\* An async MessagingService.sendMessage in flight for a handler (op), at the
\* await pc: "store" (redisService.set of the message), "trigger"
\* (client.trigger) or "cache" (redisService.set of the channel activity).
Task(op, c, channel) ==
    [op |-> op, client |-> c, channel |-> channel, pc |-> "store"]

\* The event name of the message a handler sends.
eventOf(op) ==
    CASE op = "subscribe" -> "user_joined"
      [] op = "unsubscribe" -> "user_left"
      [] OTHER -> "message"

\* addClientSubscription(clientId, channel)
addClientSubscription(cc, clientId, channel) ==
    IF clientId \in DOMAIN cc
    THEN [cc EXCEPT ![clientId] = @ \cup {channel}]
    ELSE MapSet(cc, clientId, {channel})

\* removeClientSubscription(clientId, channel)
removeClientSubscription(cc, clientId, channel) ==
    IF clientId \notin DOMAIN cc THEN cc
    ELSE IF cc[clientId] \ {channel} = {} THEN MapDelete(cc, clientId)
    ELSE [cc EXCEPT ![clientId] = @ \ {channel}]

\* The client was told that its presence subscription to the channel succeeded.
joinAcknowledged(c, channel) ==
    Emit(c, "subscription_succeeded", channel, "presence") \in emitted

\* A new sendMessage may start: the bounds of the model leave room for it.
CanStart(t) ==
    /\ t \notin tasks
    /\ Cardinality(tasks) < MaxTasks
    /\ Len(triggered) + Cardinality(tasks) < MaxTriggered

InitPusher ==
    /\ pgSockets = [c \in PgClients |-> "none"]
    /\ connectedClients = EmptyMap
    /\ rooms = {}
    /\ tasks = {}
    /\ triggered = <<>>
    /\ emitted = {}

\* handleConnection
HandleConnection(c) ==
    /\ pgSockets[c] = "none"
    /\ pgSockets' = [pgSockets EXCEPT ![c] = "connected"]
    /\ UNCHANGED <<connectedClients, rooms, tasks, triggered, emitted>>
    /\ UNCHANGED <<sseVars, wsVars, whVars, rsVars>>

\* handleSubscribe up to its first await of I/O; authThrows: authenticateChannel
\* throws.  On a presence channel with a userId the handler emits
\* 'subscription_succeeded' and stops inside handleUserJoin, at the await of
\* the message store; otherwise it runs to its end.
HandleSubscribe(c, channel, withUser, authThrows) ==
    /\ pgSockets[c] = "connected"
    /\ IF startsWith(channel, "presence-") /\ withUser
       THEN IF authThrows
            THEN /\ emitted' = emit(emitted, c, "subscription_error", channel, NoAuth)
                 /\ UNCHANGED <<connectedClients, rooms, tasks>>
            ELSE /\ CanStart(Task("subscribe", c, channel))
                 /\ emitted' = emit(emitted, c, "subscription_succeeded", channel,
                                     authResponse(channel, withUser))
                 /\ tasks' = tasks \cup {Task("subscribe", c, channel)}
                 /\ UNCHANGED <<connectedClients, rooms>>
       ELSE IF startsWith(channel, "private-")
       THEN IF authThrows
            THEN /\ emitted' = emit(emitted, c, "subscription_error", channel, NoAuth)
                 /\ UNCHANGED <<connectedClients, rooms, tasks>>
            ELSE /\ emitted' = emit(emitted, c, "subscription_succeeded", channel,
                                     authResponse(channel, FALSE))
                 /\ connectedClients' =
                        addClientSubscription(connectedClients, c, channel)
                 /\ rooms' = rooms \cup {<<c, channel>>}
                 /\ UNCHANGED tasks
       ELSE /\ ~authThrows
            /\ emitted' = emit(emitted, c, "subscription_succeeded", channel, NoAuth)
            /\ connectedClients' =
                   addClientSubscription(connectedClients, c, channel)
            /\ rooms' = rooms \cup {<<c, channel>>}
            /\ UNCHANGED tasks
    /\ UNCHANGED <<pgSockets, triggered>>
    /\ UNCHANGED <<sseVars, wsVars, whVars, rsVars>>

\* handleUnsubscribe up to its first await of I/O: with a userId it stops
\* inside handleUserLeave, otherwise it runs to its end.
HandleUnsubscribe(c, channel, withUser) ==
    /\ pgSockets[c] = "connected"
    /\ rooms' = rooms \ {<<c, channel>>}
    /\ IF withUser
       THEN /\ CanStart(Task("unsubscribe", c, channel))
            /\ tasks' = tasks \cup {Task("unsubscribe", c, channel)}
            /\ UNCHANGED <<connectedClients, emitted>>
       ELSE /\ connectedClients' =
                   removeClientSubscription(connectedClients, c, channel)
            /\ emitted' = emit(emitted, c, "unsubscribe_succeeded", channel, NoAuth)
            /\ UNCHANGED tasks
    /\ UNCHANGED <<pgSockets, triggered>>
    /\ UNCHANGED <<sseVars, wsVars, whVars, rsVars>>

\* handleDisconnect: handleClientDisconnect calls handleUnsubscribe without a
\* userId for every recorded channel, then deletes the entry.  socket.io has
\* taken the socket out of all its rooms before the handler runs.
HandleDisconnect(c) ==
    /\ pgSockets[c] = "connected"
    /\ pgSockets' = [pgSockets EXCEPT ![c] = "disconnected"]
    /\ rooms' = {r \in rooms : r[1] # c}
    /\ connectedClients' = MapDelete(connectedClients, c)
    /\ emitted' = IF c \in DOMAIN connectedClients /\ connectedClients[c] # {}
                   THEN emit(emitted, c, "unsubscribe_succeeded",
                             CHOOSE ch \in connectedClients[c] : TRUE, NoAuth)
                   ELSE emitted
    /\ UNCHANGED <<tasks, triggered>>
    /\ UNCHANGED <<sseVars, wsVars, whVars, rsVars>>

\* MessagingController.sendMessage for a message of the client's user, up to
\* the await of the message store.  The client publishes on a presence
\* channel once it was told that its subscription succeeded.
Publish(c, channel) ==
    /\ pgSockets[c] = "connected"
    /\ joinAcknowledged(c, channel)
    /\ CanStart(Task("publish", c, channel))
    /\ tasks' = tasks \cup {Task("publish", c, channel)}
    /\ UNCHANGED <<pgSockets, connectedClients, rooms, triggered, emitted>>
    /\ UNCHANGED <<sseVars, wsVars, whVars, rsVars>>

\* The rest of a handler after its sendMessage returned.
Finish(t) ==
    /\ tasks' = tasks \ {t}
    /\ IF t.op = "subscribe"
       THEN /\ connectedClients' =
                   addClientSubscription(connectedClients, t.client, t.channel)
            /\ rooms' = rooms \cup {<<t.client, t.channel>>}
            /\ UNCHANGED emitted
       ELSE IF t.op = "unsubscribe"
       THEN /\ connectedClients' =
                   removeClientSubscription(connectedClients, t.client, t.channel)
            /\ emitted' = emit(emitted, t.client, "unsubscribe_succeeded",
                                 t.channel, NoAuth)
            /\ UNCHANGED rooms
       ELSE UNCHANGED <<connectedClients, rooms, emitted>>

\* MessagingService.sendMessage: the message store returned (true or false);
\* PusherService.sendMessage calls client.trigger.
StoreDone(t) ==
    /\ t \in tasks /\ t.pc = "store"
    /\ tasks' = (tasks \ {t}) \cup {[t EXCEPT !.pc = "trigger"]}
    /\ UNCHANGED <<pgSockets, connectedClients, rooms, triggered, emitted>>
    /\ UNCHANGED <<sseVars, wsVars, whVars, rsVars>>

\* PusherService.sendMessage: client.trigger returned (ok) or threw; after a
\* throw sendMessage returns false and the handler goes on.
TriggerDone(t, ok) ==
    /\ t \in tasks /\ t.pc = "trigger"
    /\ triggered' = Append(triggered,
                           [event |-> eventOf(t.op), channel |-> t.channel,
                            userId |-> UserOf(t.client), ok |-> ok])
    /\ IF ok
       THEN /\ tasks' = (tasks \ {t}) \cup {[t EXCEPT !.pc = "cache"]}
            /\ UNCHANGED <<connectedClients, rooms, emitted>>
       ELSE Finish(t)
    /\ UNCHANGED pgSockets
    /\ UNCHANGED <<sseVars, wsVars, whVars, rsVars>>

\* PusherService.sendMessage: the store of the channel activity returned.
CacheDone(t) ==
    /\ t \in tasks /\ t.pc = "cache"
    /\ Finish(t)
    /\ UNCHANGED <<pgSockets, triggered>>
    /\ UNCHANGED <<sseVars, wsVars, whVars, rsVars>>

NextPusher ==
    \/ \E c \in PgClients : HandleConnection(c)
    \/ \E c \in PgClients, ch \in Channels, withUser \in BOOLEAN,
          authThrows \in BOOLEAN : HandleSubscribe(c, ch, withUser, authThrows)
    \/ \E c \in PgClients, ch \in Channels, withUser \in BOOLEAN :
          HandleUnsubscribe(c, ch, withUser)
    \/ \E c \in PgClients : HandleDisconnect(c)
    \/ \E c \in PgClients, ch \in Channels : Publish(c, ch)
    \/ \E t \in tasks : StoreDone(t)
    \/ \E t \in tasks, ok \in BOOLEAN : TriggerDone(t, ok)
    \/ \E t \in tasks : CacheDone(t)

(***************************************************************************)
(* WebhookService (libs/messaging/webhook/webhook.service.ts).             *)
(*                                                                         *)
(* Incoming side: the express POST handler looks the handler of the        *)
(* event's type up, verifies the signature and calls the handler.  The     *)
(* handler registry is the state; posted records the last request and how  *)
(* it was answered.                                                        *)
(*                                                                         *)
(* Outgoing side: send snapshots the matching subscription objects and     *)
(* delivers to them one after the other.  deliverWebhook touches nothing   *)
(* of the service but the immutable config, so one delivery (its fetch     *)
(* attempts and delays) is one step, taken when it returns, together with  *)
(* the synchronous code of send that follows the await.  Whatever runs    *)
(* while a delivery is awaited (subscribe, unsubscribe, updateSubscription,*)
(* another send) is a step between two such steps.  What the endpoint      *)
(* answers to the successive fetch attempts is the environment's choice.   *)
(***************************************************************************)
MaxSubs == 2

\* options?.retries ?? this.config.retries ?? 3
defaultRetries == 3

\* WebhookDeliveryResult.statusCode is absent from a result without a response.
NoStatus == 0

EventTypes == {"a", "b"}

NoSecret == ""

Secrets == {"s1", "s2"}

\* config.retries is optional: {} when it is not set, {n} when it is n.
RetriesChoices == {{}, {0}, {1}}

WhConfigs ==
    [verifySignature : BOOLEAN, secret : {NoSecret, "s1"},
     retries : RetriesChoices]

Bodies == [type : EventTypes, data : {"d1", "d2"}]

\* JSON.stringify(req.body): the text that is signed.
Stringify(body) == <<"type", body.type, "data", body.data>>

\* createHmac('sha256', secret).update(text).digest('hex'): a value that
\* depends on the secret and on the text, and on nothing else.
Hmac(secret, text) == <<"sha256", secret, text>>

\* req.headers['x-webhook-signature'] of a request without the header.
NoSignature == <<>>

Signatures ==
    {NoSignature} \cup {Hmac(s, Stringify(b)) : s \in Secrets, b \in Bodies}

Requests == [body : Bodies, signature : Signatures]

\* A mutant of verifySignature: any signature that is present passes.
verifySignaturePresent(cfg, req) ==
    IF ~cfg.verifySignature \/ cfg.secret = NoSecret THEN TRUE
    ELSE req.signature # NoSignature

verifySignature(cfg, req) ==
    IF ~cfg.verifySignature \/ cfg.secret = NoSecret THEN TRUE
    ELSE IF req.signature = NoSignature THEN FALSE
    ELSE req.signature = Hmac(cfg.secret, Stringify(req.body))

\* The POST handler: the status of the response and whether
\* handler.handler was called.  handler.verifySignature is FALSE for a
\* handler registered with verifySignature: false, TRUE otherwise (the test
\* is `!== false`).  A handler that returns answers the request itself
\* (200 here); a handler that throws makes the catch answer 500.
post(cfg, hs, req, handlerThrows) ==
    IF req.body.type \notin DOMAIN hs
    THEN [status |-> 404, invoked |-> FALSE, handler |-> {}]
    ELSE LET handler == hs[req.body.type] IN
         IF handler.verifySignature /\ cfg.verifySignature
               /\ ~verifySignature(cfg, req)
         THEN [status |-> 401, invoked |-> FALSE, handler |-> {handler}]
         ELSE [status |-> IF handlerThrows THEN 500 ELSE 200,
               invoked |-> TRUE, handler |-> {handler}]

\* How one fetch attempt ends: a JSON response with an ok status, a JSON
\* response with another status, a response whose body is not JSON
\* (response.json() rejects), the abort of the timeout, any other rejection.
Outcomes == {"ok", "status", "badjson", "abort", "network"}

IsResponse(o) == o \in {"ok", "status", "badjson"}

retriesOf(cfg) ==
    IF cfg.retries = {} THEN defaultRetries ELSE CHOOSE n \in cfg.retries : TRUE

\* What the endpoint answers to the fetch calls of one delivery.
OutcomeSeqs(cfg) == [1..retriesOf(cfg) -> Outcomes]

\* The error that reaches the outer catch: what the inner catch rethrows.
rethrown(o) == o \in {"badjson", "network"}

errorMessage(o) ==
    CASE o = "status" -> "HTTP 500"
      [] o = "abort" -> "Request timed out"
      [] o = "badjson" -> "Unexpected token"
      [] o = "network" -> "fetch failed"
      [] OTHER -> ""

\* The while loop of deliverWebhook: the result it returns and the number of
\* fetch calls it made.  The timestamp is filled in by the caller's step.
RECURSIVE deliverLoop(_, _, _, _)
deliverLoop(retries, outcomes, attemptCount, lastError) ==
    IF attemptCount < retries
    THEN LET o == outcomes[attemptCount + 1] IN
         IF rethrown(o)
         THEN deliverLoop(retries, outcomes, attemptCount + 1, errorMessage(o))
         ELSE [result |-> [success |-> o = "ok",
                           statusCode |-> CASE o = "ok" -> 200
                                            [] o = "status" -> 500
                                            [] OTHER -> NoStatus,
                           error |-> errorMessage(o),
                           retries |-> attemptCount],
               fetches |-> attemptCount + 1]
    ELSE [result |-> [success |-> FALSE, statusCode |-> NoStatus,
                      error |-> lastError, retries |-> attemptCount],
          fetches |-> attemptCount]

deliverWebhook(cfg, outcomes) == deliverLoop(retriesOf(cfg), outcomes, 0, "")

\* The ways one delivery can go: its result, the number of its fetch calls
\* and how they ended.
deliveryOf(cfg, outcomes) ==
    LET r == deliverWebhook(cfg, outcomes)
    IN  [result |-> r.result, fetches |-> r.fetches,
         attempts |-> SubSeq(outcomes, 1, r.fetches)]

Deliveries(cfg) == {deliveryOf(cfg, o) : o \in OutcomeSeqs(cfg)}

\* A mutant of matches: the active flag is not looked at.
matchesInactive(sub, type) == type \in sub.events

\* sub => sub.active && sub.events.includes(type)
matches(sub, type) == sub.active /\ type \in sub.events

\* Array.from(this.subscriptions.values()).filter(...): references to the
\* objects of the registry.  stored tells whether the registry still holds
\* the very object the reference points to; it does when the array is made.
matching(subs, type) ==
    LET ids == SortedSeq(DOMAIN subs)
        ref(id) == [id |-> id, stored |-> TRUE]
        all == [i \in 1..Len(ids) |-> ref(ids[i])]
        sel(r) == matches(subs[r.id], type)
    IN  SelectSeq(all, sel)

\* The references of an array after the registry dropped or replaced the
\* object stored under id.
detach(queue, id) ==
    [i \in 1..Len(queue) |->
        IF queue[i].id = id THEN [queue[i] EXCEPT !.stored = FALSE] ELSE queue[i]]

\* { timestamp, success, statusCode } of a result.
lastDeliveryOf(result, timestamp) ==
    [timestamp |-> timestamp, success |-> result.success,
     statusCode |-> result.statusCode]

\* { ...subscription, ...updates }
merge(sub, updates) ==
    [f \in DOMAIN sub |-> IF f \in DOMAIN updates THEN updates[f] ELSE sub[f]]

Updates == [active : BOOLEAN]

\* subscription.lastDelivery = {...}: an assignment to the object of the
\* array, which shows in the registry only while the registry still holds
\* that very object.
assignLastDelivery(subs, ref, delivery) ==
    IF ref.stored
    THEN [subs EXCEPT ![ref.id].lastDelivery = {delivery}]
    ELSE subs

\* What send looks at in the registry when it is called.
filtered(subs) ==
    [id \in DOMAIN subs |-> [active |-> subs[id].active, events |-> subs[id].events]]

InitWebhook ==
    /\ handlers = EmptyMap
    /\ posted = {}
    /\ whSubscriptions = EmptyMap
    /\ sends = {}
    /\ whClock = 1
    /\ nextSub = 1

whInVars == <<handlers, posted>>

whOutVars == <<whSubscriptions, sends, whClock, nextSub>>

RegisterHandler(type, verify) ==
    /\ handlers' = MapSet(handlers, type, [verifySignature |-> verify])
    /\ UNCHANGED <<whConfig, posted, whOutVars>>
    /\ UNCHANGED <<sseVars, wsVars, pgVars, rsVars>>

UnregisterHandler(type) ==
    /\ type \in DOMAIN handlers
    /\ handlers' = MapDelete(handlers, type)
    /\ UNCHANGED <<whConfig, posted, whOutVars>>
    /\ UNCHANGED <<sseVars, wsVars, pgVars, rsVars>>

Post(req, handlerThrows) ==
    /\ LET r == post(whConfig, handlers, req, handlerThrows)
       IN  posted' = {[req |-> req, status |-> r.status,
                       invoked |-> r.invoked, handler |-> r.handler]}
    /\ UNCHANGED <<whConfig, handlers, whOutVars>>
    /\ UNCHANGED <<sseVars, wsVars, pgVars, rsVars>>

NextWebhookIn ==
    \/ \E type \in EventTypes, verify \in BOOLEAN : RegisterHandler(type, verify)
    \/ \E type \in EventTypes : UnregisterHandler(type)
    \/ \E req \in Requests, handlerThrows \in BOOLEAN : Post(req, handlerThrows)

WhSubscribe(events) ==
    /\ nextSub <= MaxSubs
    /\ whSubscriptions' =
           MapSet(whSubscriptions, nextSub,
                  [events |-> events, active |-> TRUE, lastDelivery |-> {}])
    /\ nextSub' = nextSub + 1
    /\ UNCHANGED <<whConfig, whInVars, sends, whClock>>
    /\ UNCHANGED <<sseVars, wsVars, pgVars, rsVars>>

WhUnsubscribe(id) ==
    /\ id \in DOMAIN whSubscriptions
    /\ whSubscriptions' = MapDelete(whSubscriptions, id)
    /\ sends' = {[t EXCEPT !.queue = detach(@, id)] : t \in sends}
    /\ UNCHANGED <<whConfig, whInVars, whClock, nextSub>>
    /\ UNCHANGED <<sseVars, wsVars, pgVars, rsVars>>

\* The copy is a new object that takes the place of the one stored before,
\* which stays as it is.
UpdateSubscription(id, updates) ==
    /\ id \in DOMAIN whSubscriptions
    /\ whSubscriptions' =
           [whSubscriptions EXCEPT ![id] = merge(whSubscriptions[id], updates)]
    /\ sends' = {[t EXCEPT !.queue = detach(@, id)] : t \in sends}
    /\ UNCHANGED <<whConfig, whInVars, whClock, nextSub>>
    /\ UNCHANGED <<sseVars, wsVars, pgVars, rsVars>>

\* send up to its first await; one call of send is followed.  atCall keeps
\* what the registry said when send was called, fetched the subscriptions
\* that were sent a request, results what lastDelivery takes of each result
\* pushed, latest the whole of the latest result and how the fetch calls
\* of its delivery ended.
Send(type) ==
    /\ sends = {}
    /\ sends' = {[type |-> type, atCall |-> filtered(whSubscriptions),
                  queue |-> matching(whSubscriptions, type),
                  results |-> <<>>, fetched |-> {}, latest |-> {}]}
    /\ UNCHANGED <<whConfig, whInVars, whSubscriptions, whClock, nextSub>>
    /\ UNCHANGED <<sseVars, wsVars, pgVars, rsVars>>

\* One turn of the for loop of send: the delivery r to the head of its array
\* returns, lastDelivery is assigned and the result is pushed.
Deliver(t, r) ==
    /\ t \in sends
    /\ t.queue # <<>>
    /\ LET ref == Head(t.queue)
           delivery == lastDeliveryOf(r.result, whClock)
       IN  /\ whSubscriptions' =
                  assignLastDelivery(whSubscriptions, ref, delivery)
           /\ sends' =
                  {[t EXCEPT
                      !.queue = Tail(@),
                      !.results =
                          Append(@, [id |-> ref.id, delivery |-> delivery]),
                      !.fetched =
                          IF r.fetches > 0 THEN @ \cup {ref.id} ELSE @,
                      !.latest =
                          {[result |-> r.result, attempts |-> r.attempts]}]}
    /\ whClock' = whClock + 1
    /\ UNCHANGED <<whConfig, whInVars, nextSub>>
    /\ UNCHANGED <<sseVars, wsVars, pgVars, rsVars>>

NextWebhookOut ==
    \/ \E events \in {{"a"}, {"b"}} : WhSubscribe(events)
    \/ \E id \in DOMAIN whSubscriptions : WhUnsubscribe(id)
    \/ \E id \in DOMAIN whSubscriptions, updates \in Updates :
           UpdateSubscription(id, updates)
    \/ \E type \in EventTypes : Send(type)
    \/ \E t \in sends, r \in Deliveries(whConfig) : Deliver(t, r)

(***************************************************************************)
(* The Redis side: the message store of MessagingService.sendMessage       *)
(* (core/messaging/services/messaging.service.ts) and the counter and the  *)
(* polled list of the RedisService-backed RedisStorage.  Redis runs one    *)
(* command at a time, so a command is one step; the callers' code between  *)
(* two commands of one call is part of the step of the later command.      *)
(* There is one counter key, one channel and one subscriber; the keys of   *)
(* the message store live far longer (MESSAGE_TTL) than the runs looked    *)
(* at, so they do not expire here.                                         *)
(***************************************************************************)
MaxNow == 2

MaxIncrements == 2

MaxPublished == 2

MaxInvoked == 2

Contents == {"hello", "bye"}

Digits == <<"0", "1", "2", "3", "4", "5", "6", "7", "8", "9">>

\* Number.prototype.toString of the small numbers of the model.
toString(n) == Digits[n + 1]

\* What redis.get answers for a key that is not set.
Null == "null"

\* (parseInt(current || '0', 10) || 0): the text that does not parse gives
\* NaN, which `|| 0` turns into 0.
parseInt(s) ==
    IF \E n \in 0..9 : Digits[n + 1] = s
    THEN CHOOSE n \in 0..9 : Digits[n + 1] = s
    ELSE 0

\* `message:${messageId}`
getMessageKey(messageId) == <<"message:", messageId>>

\* The message that sendMessage builds at time t.
newMessage(t, content) == [id |-> toString(t), content |-> content]

Increments == 1..MaxIncrements

Published == 1..MaxPublished

InitRedis ==
    /\ now = 0
    /\ messageStore = EmptyMap
    /\ counter = Null
    /\ increments = [t \in Increments |-> [pc |-> "idle", current |-> Null]]
    /\ channelList = <<>>
    /\ polling = [armed |-> FALSE, messages |-> {}]
    /\ invoked = [m \in Published |-> 0]
    /\ unsubscribed = FALSE

\* A millisecond passes.
Tick ==
    /\ now < MaxNow
    /\ now' = now + 1
    /\ UNCHANGED <<messageStore, counter, increments, channelList, polling,
                   invoked, unsubscribed>>
    /\ UNCHANGED <<sseVars, wsVars, pgVars, whVars>>

\* sendMessage up to the SET of the message.
StoreMessage(content) ==
    /\ LET message == newMessage(now, content)
       IN  messageStore' =
               MapSet(messageStore, getMessageKey(message.id), message)
    /\ UNCHANGED <<now, counter, increments, channelList, polling, invoked,
                   unsubscribed>>
    /\ UNCHANGED <<sseVars, wsVars, pgVars, whVars>>

\* increment: const current = await this.redisService.get(key)
IncrementGet(t) ==
    /\ increments[t].pc = "idle"
    /\ increments' = [increments EXCEPT ![t] = [pc |-> "read", current |-> counter]]
    /\ UNCHANGED <<now, messageStore, counter, channelList, polling, invoked,
                   unsubscribed>>
    /\ UNCHANGED <<sseVars, wsVars, pgVars, whVars>>

\* increment: await this.redisService.set(key, newValue.toString())
IncrementSet(t) ==
    /\ increments[t].pc = "read"
    /\ LET newValue == parseInt(increments[t].current) + 1
       IN  counter' = toString(newValue)
    /\ increments' = [increments EXCEPT ![t].pc = "done"]
    /\ UNCHANGED <<now, messageStore, channelList, polling, invoked,
                   unsubscribed>>
    /\ UNCHANGED <<sseVars, wsVars, pgVars, whVars>>

\* publish: lpush puts the message at the head of the list.  The messages
\* are told apart by the order of their publication.
RsPublish ==
    /\ Len(channelList) < MaxPublished
    /\ channelList' = <<Len(channelList) + 1>> \o channelList
    /\ UNCHANGED <<now, messageStore, counter, increments, polling, invoked,
                   unsubscribed>>
    /\ UNCHANGED <<sseVars, wsVars, pgVars, whVars>>

\* subscribe arms the interval; its handle is not kept.
RsSubscribe ==
    /\ ~polling.armed
    /\ polling' = [polling EXCEPT !.armed = TRUE]
    /\ UNCHANGED <<now, messageStore, counter, increments, channelList,
                   invoked, unsubscribed>>
    /\ UNCHANGED <<sseVars, wsVars, pgVars, whVars>>

\* unsubscribe has an empty body.
RsUnsubscribe ==
    /\ polling.armed
    /\ unsubscribed' = TRUE
    /\ UNCHANGED <<now, messageStore, counter, increments, channelList,
                   polling, invoked>>
    /\ UNCHANGED <<sseVars, wsVars, pgVars, whVars>>

\* The interval fires: lrange(channel, 0, -1) reads the whole list.
PollRange ==
    /\ polling.armed
    /\ polling.messages = {}
    /\ polling' = [polling EXCEPT !.messages = {channelList}]
    /\ UNCHANGED <<now, messageStore, counter, increments, channelList,
                   invoked, unsubscribed>>
    /\ UNCHANGED <<sseVars, wsVars, pgVars, whVars>>

\* messages.forEach(callback)
PollForEach ==
    /\ polling.messages # {}
    /\ LET messages == CHOOSE l \in polling.messages : TRUE
           seen == {messages[i] : i \in 1..Len(messages)}
       IN  /\ \A m \in seen : invoked[m] < MaxInvoked
           /\ invoked' = [m \in Published |->
                             IF m \in seen THEN invoked[m] + 1 ELSE invoked[m]]
    /\ polling' = [polling EXCEPT !.messages = {}]
    /\ UNCHANGED <<now, messageStore, counter, increments, channelList,
                   unsubscribed>>
    /\ UNCHANGED <<sseVars, wsVars, pgVars, whVars>>

NextRedis ==
    \/ Tick
    \/ \E content \in Contents : StoreMessage(content)
    \/ \E t \in Increments : IncrementGet(t)
    \/ \E t \in Increments : IncrementSet(t)
    \/ RsPublish
    \/ RsSubscribe
    \/ RsUnsubscribe
    \/ PollRange
    \/ PollForEach

(***************************************************************************)
(* The specifications: one service runs, the others stay as constructed.   *)
(***************************************************************************)
\* An SSEService that is constructed and left alone.
IdleSSE == InitSSE /\ config = [enabled |-> FALSE, maxClients |-> 1]

\* A WebhookService that is constructed and left alone.
IdleWebhook ==
    /\ InitWebhook
    /\ whConfig = [verifySignature |-> TRUE, secret |-> "s1", retries |-> {}]

\* The SSEService is constructed; no WebSocket server, no gateway traffic.
InitSpecSSE == InitSSE /\ InitWS /\ InitPusher /\ IdleWebhook /\ InitRedis

\* Every service is constructed, the SSEService disabled.
InitIdle == IdleSSE /\ InitWS /\ InitPusher /\ IdleWebhook /\ InitRedis

\* Every service is constructed, the WebhookService with any configuration
\* of its incoming side.
InitSpecWebhookIn ==
    /\ IdleSSE /\ InitWS /\ InitPusher /\ InitRedis
    /\ InitWebhook
    /\ whConfig \in {c \in WhConfigs : c.retries = {}}

\* Every service is constructed, the WebhookService with any configuration
\* of its outgoing side.
InitSpecWebhookOut ==
    /\ IdleSSE /\ InitWS /\ InitPusher /\ InitRedis
    /\ InitWebhook
    /\ whConfig \in {c \in WhConfigs : c.verifySignature /\ c.secret = "s1"}

SpecSSE == InitSpecSSE /\ [][NextSSE]_vars

SpecWS == InitIdle /\ [][NextWS]_vars

SpecPusher == InitIdle /\ [][NextPusher]_vars

SpecWebhookIn == InitSpecWebhookIn /\ [][NextWebhookIn]_vars

SpecWebhookOut == InitSpecWebhookOut /\ [][NextWebhookOut]_vars

SpecRedis == InitIdle /\ [][NextRedis]_vars

(***************************************************************************)
(* The vocabulary of the properties.                                       *)
(***************************************************************************)
Registered == DOMAIN clients

\* Client c has topic t in its topic set.
Holds(c, t) == c \in Registered /\ t \in clients[c].topics

\* The subscription filter of client c for the topic of ev returns false.
FilterReturnsFalse(c, ev) ==
    /\ SubKey(c, ev.topic) \in DOMAIN subscriptions
    /\ subscriptions[SubKey(c, ev.topic)].filter = HighOnly
    /\ ev.data.priority # "high"

WithinSize(ev) == ev.data.bytes <= maxEventSize

\* A successful, a failed write of event ev.
WriteOk(ev) == [msg |-> [id |-> ev.id, data |-> ev.data], ok |-> TRUE]
WriteFailed(ev) == [msg |-> [id |-> ev.id, data |-> ev.data], ok |-> FALSE]

\* The response.write calls made for client c, as the set of their outcomes.
NoWrites(fx) == \A c \in ClientIds : fx.writes[c] = <<>>

LowEvent(t) == [id |-> "e1", topic |-> t, data |-> [priority |-> "low", bytes |-> 1]]

C3_ActiveTopicsExact ==
    activeTopics = UNION {clients[c].topics : c \in Registered}

\* Client 1 is the last holder of t1 while t2 stays held by client 2:
\* unsubscribing 1 from t1, or removing 1, takes t1 and only t1 out of the
\* active topics.
C3_Witness ==
    /\ Holds(1, "t1") /\ ~Holds(2, "t1") /\ Holds(2, "t2")
    /\ activeTopics = {"t1", "t2"}
    /\ unsubscribe(Svc, 1, {"t1"}).activeTopics = {"t2"}
    /\ removeClient(Svc, NoEffects, 1, FALSE).S.activeTopics = {"t2"}

(***************************************************************************)
(* C4: a subscription record for (C, T) exists iff C is registered and T   *)
(* is in C's topic set.                                                    *)
(***************************************************************************)
C4_RecordIffEdge ==
    \A c \in ClientIds, t \in Topics :
        SubKey(c, t) \in DOMAIN subscriptions <=> Holds(c, t)

(***************************************************************************)
(* C5: addClient throws 'Maximum number of clients reached' whenever the   *)
(* registry holds maxClients clients, and the number of registered clients *)
(* never exceeds maxClients.                                               *)
(***************************************************************************)
C5_MaxClients ==
    /\ Cardinality(Registered) <= config.maxClients
    /\ Cardinality(Registered) = config.maxClients =>
          \A topics \in SUBSET Topics, fail \in {"none", "writeHead", "write"} :
              LET r == addClient(config, Svc, nextClientId, topics, fail)
              IN  r.threw = ErrMaxClients /\ r.S = Svc

\* The registry is full and a further addClient is attempted.
C5_Witness ==
    /\ Cardinality(Registered) = config.maxClients
    /\ nextClientId <= MaxIds
    /\ addClient(config, Svc, nextClientId, {"t1"}, "none").threw = ErrMaxClients

(***************************************************************************)
(* C6: after removeClient(C) returns, C is not registered and no           *)
(* subscription record whose clientId is C remains.                        *)
(***************************************************************************)
C6_RemoveCascades ==
    \A c \in ClientIds, endThrows \in BOOLEAN :
        LET r == removeClient(Svc, NoEffects, c, endThrows)
        IN  /\ c \notin DOMAIN r.S.clients
            /\ \A k \in DOMAIN r.S.subscriptions : r.S.subscriptions[k].clientId # c

(***************************************************************************)
(* C7: removeClient never throws and leaves the client unregistered, also  *)
(* when response.end throws; a second call for the same id changes no      *)
(* state and makes no further response.end call.                           *)
(***************************************************************************)
C7_RemoveNeverFails ==
    \A c \in ClientIds, endThrows \in BOOLEAN :
        LET r == removeClient(Svc, NoEffects, c, endThrows)
        IN  /\ ~r.threw
            /\ c \notin DOMAIN r.S.clients
            /\ Len(r.fx.ends[c]) <= 1
            /\ \A again \in BOOLEAN :
                  LET r2 == removeClient(r.S, r.fx, c, again)
                  IN  ~r2.threw /\ r2.S = r.S /\ r2.fx = r.fx

\* A registered client whose response.end throws on removal.
C7_Witness ==
    /\ 1 \in Registered
    /\ LET r == removeClient(Svc, NoEffects, 1, TRUE)
       IN  r.fx.ends[1] = <<FALSE>> /\ 1 \notin DOMAIN r.S.clients

(***************************************************************************)
(* C8: in one broadcast, a recipient whose write fails is removed from the *)
(* registry, every other matching recipient still gets its write and stays *)
(* registered, and the broadcast does not throw.                           *)
(***************************************************************************)
\* c is a recipient of ev to which a write is made.
Targeted(c, ev) ==
    /\ c \in Registered
    /\ ev.topic = NoTopic \/ Holds(c, ev.topic)
    /\ ev.topic = NoTopic \/ ~FilterReturnsFalse(c, ev)
    /\ WithinSize(ev)

C8_FailureIsolation ==
    \A ev \in Events, W \in SUBSET Registered, E \in EndChoices :
        LET r == broadcast(config.enabled, Svc, ev, W, E)
        IN  /\ r.threw = NoError
            /\ \A c \in Registered :
                  Targeted(c, ev) =>
                      IF c \in W
                      THEN r.fx.writes[c] = <<WriteFailed(ev)>>
                           /\ c \notin DOMAIN r.S.clients
                      ELSE r.fx.writes[c] = <<WriteOk(ev)>>
                           /\ c \in DOMAIN r.S.clients

\* Two recipients of an event on t1; the write to the first fails, the
\* second still gets the event.
C8_Witness ==
    /\ Targeted(1, LowEvent("t1")) /\ Targeted(2, LowEvent("t1"))
    /\ LET r == broadcast(config.enabled, Svc, LowEvent("t1"), {1}, {})
       IN  /\ 1 \notin DOMAIN r.S.clients
           /\ r.fx.writes[2] = <<WriteOk(LowEvent("t1"))>>

OnlySubscriber(c, ev) ==
    /\ ev.topic # NoTopic
    /\ Holds(c, ev.topic)
    /\ \A d \in Registered : Holds(d, ev.topic) => d = c

\* The failures of one broadcast: the failed writes.
FailedDeliveries(fx) ==
    Cardinality({c \in ClientIds : \E i \in 1 .. Len(fx.writes[c]) : ~fx.writes[c][i].ok})

HighEvent(t) == [id |-> "e1", topic |-> t, data |-> [priority |-> "high", bytes |-> 1]]

C11_FilterRejectKeeps ==
    \A c \in Registered, ev \in Events :
        (ev.topic # NoTopic /\ Holds(c, ev.topic) /\ FilterReturnsFalse(c, ev)) =>
            \A W \in SUBSET (Registered \ {c}) :
                LET hi == HighEvent(ev.topic)
                    key == SubKey(c, ev.topic)
                    r == broadcast(config.enabled, Svc, ev, W, {})
                    later == broadcast(config.enabled, r.S, hi, {}, {})
                    first == broadcast(config.enabled, Svc, hi, {}, {})
                    second == broadcast(config.enabled, first.S, ev, W, {})
                IN  /\ r.fx.writes[c] = <<>>
                    /\ c \in DOMAIN r.S.clients
                    /\ r.S.clients[c] = clients[c]
                    /\ r.S.subscriptions[key] = subscriptions[key]
                    /\ later.fx.writes[c] = <<WriteOk(hi)>>
                    /\ first.fx.writes[c] = <<WriteOk(hi)>>
                    /\ second.fx.writes[c] = <<>>
                    /\ c \in DOMAIN second.S.clients

\* Client 1 holds t1 behind the filter: a low-priority event is not written
\* to it, the high-priority event after it is.
C11_Witness ==
    /\ Holds(1, "t1") /\ FilterReturnsFalse(1, LowEvent("t1"))
    /\ LET r == broadcast(config.enabled, Svc, LowEvent("t1"), {}, {})
           later == broadcast(config.enabled, r.S, HighEvent("t1"), {}, {})
       IN  /\ r.fx.writes[1] = <<>>
           /\ later.fx.writes[1] = <<WriteOk(HighEvent("t1"))>>

(***************************************************************************)
(* C12: a WebSocket client that sends no pong across two consecutive       *)
(* heartbeat sweeps is terminated and removed from the client registry by  *)
(* the second sweep at the latest, and is not in the registry afterwards.  *)
(***************************************************************************)
C12_TwoMissedEvicts ==
    \A ws \in SocketIds :
        missed[ws] >= 2 =>
            /\ ws \notin wsClients
            /\ wsSockets[ws] \in {"terminated", "closed"}

\* A socket was probed by one sweep, stayed silent and was terminated by the
\* next, while another socket is still registered.
C12_Witness ==
    \E ws, other \in SocketIds :
        /\ missed[ws] >= 2 /\ wsSockets[ws] = "terminated" /\ ws \notin wsClients
        /\ other \in wsClients

(***************************************************************************)
(* C13: a WebSocket client is not evicted at a sweep if, since the         *)
(* previous sweep, it sent a pong or any application-level message.        *)
(***************************************************************************)
C13_HeardNotEvicted ==
    [][\A ws \in SocketIds :
          (wsSockets[ws] = "open" /\ heard[ws]) => wsSockets'[ws] # "terminated"]_vars

(***************************************************************************)
(* C14: in a heartbeat sweep, a client whose heartbeat write fails is      *)
(* removed from the registry by that sweep, and every other registered     *)
(* client still gets the heartbeat and stays registered.                   *)
(***************************************************************************)
C14_HeartbeatIsolation ==
    heartbeatInterval =>
        \A W \in SUBSET Registered, E \in EndChoices :
            LET r == heartbeatSweep(config.enabled, Svc, W, E)
            IN  \A c \in Registered :
                    IF c \in W
                    THEN /\ r.fx.writes[c] = <<WriteFailed(HeartbeatEvent)>>
                         /\ c \notin DOMAIN r.S.clients
                    ELSE /\ r.fx.writes[c] = <<WriteOk(HeartbeatEvent)>>
                         /\ c \in DOMAIN r.S.clients

\* Two registered clients, the heartbeat write to the first fails.
C14_Witness ==
    /\ heartbeatInterval
    /\ Registered = {1, 2}
    /\ LET r == heartbeatSweep(config.enabled, Svc, {1}, {})
       IN  /\ DOMAIN r.S.clients = {2}
           /\ r.fx.writes[2] = <<WriteOk(HeartbeatEvent)>>

(***************************************************************************)
(* C15: once removeClient(C) has returned, no broadcast, sendToClient or   *)
(* heartbeat sweep makes a write to C, whatever operations ran in between. *)
(***************************************************************************)
\* The ids handed out and no longer registered: every one of them left the
\* registry through removeClient.
Removed == {c \in ClientIds : c < nextClientId /\ c \notin Registered}

C15_NoWriteAfterRemove ==
    \A c \in Removed :
        /\ \A ev \in Events, W \in SUBSET Registered :
              broadcast(config.enabled, Svc, ev, W, {}).fx.writes[c] = <<>>
        /\ \A d \in ClientIds, ev \in Events, w \in BOOLEAN :
              sendToClient(config.enabled, Svc, d, ev, w, FALSE).fx.writes[c] = <<>>
        /\ \A W \in SUBSET Registered :
              heartbeatSweep(config.enabled, Svc, W, {}).fx.writes[c] = <<>>

\* Client 1 was removed and client 2 is registered: a broadcast to everybody
\* and a heartbeat sweep write to 2 and not to 1.
C15_Witness ==
    /\ 1 \in Removed /\ 2 \in Registered
    /\ LET r == broadcast(config.enabled, Svc, LowEvent(NoTopic), {}, {})
           h == heartbeatSweep(config.enabled, Svc, {}, {})
       IN  /\ r.fx.writes[2] # <<>> /\ r.fx.writes[1] = <<>>
           /\ h.fx.writes[2] # <<>> /\ h.fx.writes[1] = <<>>

(***************************************************************************)
(* C16: subscribing a client to a topic it already holds, with a           *)
(* subscription record, leaves the client's topic set, the active topics   *)
(* and that record, filter included, exactly as they were.                 *)
(***************************************************************************)
C16_SubscribeIdempotent ==
    \A c \in Registered, t \in Topics :
        (Holds(c, t) /\ SubKey(c, t) \in DOMAIN subscriptions) =>
            LET S1 == subscribe(Svc, c, {t})
            IN  /\ S1.clients[c].topics = clients[c].topics
                /\ S1.activeTopics = activeTopics
                /\ S1.subscriptions[SubKey(c, t)] = subscriptions[SubKey(c, t)]

(***************************************************************************)
(* C17: the 'user_joined' of a client joining a presence channel is        *)
(* triggered on the channel before any message the client publishes on it  *)
(* after it received 'subscription_succeeded'.  (Publish is enabled only   *)
(* after that acknowledgement, so every recorded message is such a one.)   *)
(***************************************************************************)
C17_JoinBeforeMessage ==
    \A i \in 1 .. Len(triggered) :
        (triggered[i].event = "message" /\ triggered[i].ok) =>
            \E j \in 1 .. (i - 1) :
                /\ triggered[j].event = "user_joined"
                /\ triggered[j].channel = triggered[i].channel
                /\ triggered[j].userId = triggered[i].userId

(***************************************************************************)
(* C18: when the 'user_joined' of a presence subscription is triggered,    *)
(* the channel is already recorded for the client in connectedClients and  *)
(* the socket has joined the channel room.                                 *)
(***************************************************************************)
\* The trigger call this step completes, if it is a successful 'user_joined'.
JoinTriggeredNow(c, channel) ==
    /\ Len(triggered') = Len(triggered) + 1
    /\ triggered'[Len(triggered')] =
          [event |-> "user_joined", channel |-> channel, userId |-> UserOf(c),
           ok |-> TRUE]

C18_JoinAfterCommit ==
    [][\A c \in PgClients, channel \in Channels :
          JoinTriggeredNow(c, channel) =>
              /\ c \in DOMAIN connectedClients
              /\ channel \in connectedClients[c]
              /\ <<c, channel>> \in rooms]_vars

(***************************************************************************)
(* C19: every 'user_joined' triggered for a client on a presence channel   *)
(* is followed by a 'user_left' for the same user and channel once the     *)
(* client has unsubscribed or was disconnected: when the client is         *)
(* disconnected and none of its calls is in flight (and the recorded       *)
(* history is not full), a later 'user_left' trigger call is on record.    *)
(***************************************************************************)
Quiescent(c) ==
    /\ pgSockets[c] = "disconnected"
    /\ \A t \in tasks : t.client # c

C19_JoinedThenLeft ==
    \A c \in PgClients :
        (Quiescent(c) /\ Len(triggered) < MaxTriggered) =>
            \A i \in 1 .. Len(triggered) :
                (/\ triggered[i].event = "user_joined"
                 /\ triggered[i].ok
                 /\ triggered[i].userId = UserOf(c)) =>
                    \E j \in (i + 1) .. Len(triggered) :
                        /\ triggered[j].event = "user_left"
                        /\ triggered[j].channel = triggered[i].channel
                        /\ triggered[j].userId = triggered[i].userId

(***************************************************************************)
(* C20: once handleDisconnect for a client has completed, connectedClients *)
(* holds no entry for that client, also when a handleSubscribe of the      *)
(* client was in flight when the disconnect arrived.                       *)
(***************************************************************************)
C20_NoEntryAfterDisconnect ==
    \A c \in PgClients :
        pgSockets[c] = "disconnected" => c \notin DOMAIN connectedClients

(***************************************************************************)
(* C24: after onModuleDestroy the client list, the active topics and the   *)
(* subscription list are empty and the heartbeat timer is stopped; the     *)
(* call does not throw, also when response.end throws for some client, and *)
(* response.end was called once for every client that was registered.      *)
(***************************************************************************)
C24_DestroyEmpties ==
    \A E \in SUBSET Registered :
        LET r == onModuleDestroy(Svc, E)
        IN  /\ ~r.threw
            /\ r.S.clients = EmptyMap
            /\ r.S.subscriptions = EmptyMap
            /\ r.S.activeTopics = {}
            /\ ~r.heartbeatInterval
            /\ \A c \in Registered : r.fx.ends[c] = <<c \notin E>>

\* Two registered clients with a subscription record and the timer armed;
\* closing the response of the first throws.
C24_Witness ==
    /\ Registered = {1, 2}
    /\ subscriptions # EmptyMap /\ activeTopics # {}
    /\ heartbeatInterval
    /\ LET r == onModuleDestroy(Svc, {1})
       IN  r.fx.ends[1] = <<FALSE>> /\ r.S.clients = EmptyMap

(***************************************************************************)
(* C25: a broadcast or sendToClient whose event data exceeds maxEventSize  *)
(* leaves the registered clients, their topics and the active topics       *)
(* unchanged and closes no response.                                       *)
(***************************************************************************)
NoEnds(fx) == \A c \in ClientIds : fx.ends[c] = <<>>

C25_OversizeNoEviction ==
    \A ev \in Events :
        ~WithinSize(ev) =>
            /\ LET r == broadcast(config.enabled, Svc, ev, {}, {})
               IN  /\ r.S.clients = clients
                   /\ r.S.activeTopics = activeTopics
                   /\ NoEnds(r.fx)
            /\ \A c \in ClientIds :
                  LET r == sendToClient(config.enabled, Svc, c, ev, FALSE, FALSE)
                  IN  /\ r.S.clients = clients
                      /\ r.S.activeTopics = activeTopics
                      /\ NoEnds(r.fx)

(***************************************************************************)
(* C26: if addClient throws (disabled, capacity reached, writeHead or the  *)
(* write of the retry line failing), no client was registered and the      *)
(* active topics are as before the call.                                   *)
(***************************************************************************)
C26_AddClientThrowsClean ==
    nextClientId \in ClientIds =>
        \A topics \in SUBSET Topics, fail \in {"none", "writeHead", "write"} :
            LET r == addClient(config, Svc, nextClientId, topics, fail)
            IN  r.threw # NoError =>
                    /\ r.S.clients = clients
                    /\ r.S.activeTopics = activeTopics

(***************************************************************************)
(* WebhookService.                                                         *)
(***************************************************************************)
\* The attempts of a delivery that failed without a response and were
\* followed by another attempt or by the result of the exhausted loop.
FailedAttempts(log) == {i \in 1..Len(log) : log[i] = "network"}

\* C21: a delivery makes at most `retries` fetch attempts, makes another
\* attempt only after one that failed without a response, stops at the
\* first attempt that yields an HTTP response, and the retries field of its
\* result is the number of failed attempts before the returned outcome.
C21_StopsAtResponse ==
    \A t \in sends :
        \A d \in t.latest :
            LET log == d.attempts
            IN  /\ Len(log) <= retriesOf(whConfig)
                /\ \A i \in 1..Len(log) : IsResponse(log[i]) => i = Len(log)
                /\ d.result.retries = Cardinality(FailedAttempts(log))

\* The signature of the posted request is the HMAC of its body under the
\* configured secret.
ValidSignature(p) ==
    p.req.signature = Hmac(whConfig.secret, Stringify(p.req.body))

\* Verification is enabled with a secret and the request met a handler.
Verifying(p) ==
    /\ whConfig.verifySignature
    /\ whConfig.secret # NoSecret
    /\ p.handler # {}

Expected(t) ==
    {id \in DOMAIN t.atCall :
        t.atCall[id].active /\ t.type \in t.atCall[id].events}

ResultIds(t) == {t.results[i].id : i \in 1..Len(t.results)}

C27_LastDeliveryRecorded ==
    \A t \in sends :
        t.queue = <<>> =>
            \A i \in 1..Len(t.results) :
                LET r == t.results[i] IN
                r.id \in DOMAIN whSubscriptions =>
                    whSubscriptions[r.id].lastDelivery = {r.delivery}

(***************************************************************************)
(* MessagingService.sendMessage and RedisStorage.                          *)
(***************************************************************************)
\* C28: a message that is stored is never overwritten by another message:
\* no two calls of sendMessage write the same key.
C28_OwnKey ==
    [][\A k \in DOMAIN messageStore : messageStore'[k] = messageStore[k]]_vars

\* C29: when no increment is between its read and its write, the counter
\* has been raised by the number of increments that have returned.
C29_IncrementAtomic ==
    (\A t \in Increments : increments[t].pc # "read") =>
        parseInt(counter) =
            Cardinality({t \in Increments : increments[t].pc = "done"})

\* C30: the callback gets no message a second time, and it is not invoked
\* any more once unsubscribe has returned.
C30_OnceAndNotAfterUnsubscribe ==
    [][/\ \A m \in Published : invoked'[m] <= 1
       /\ unsubscribed => invoked' = invoked]_vars
====
